---- MODULE Spec2Model ----
(***************************************************************************)
(* Model of the proof-of-stake ledger of src/main.rs: the Blockchain       *)
(* struct (chain, validators, pending_transactions, current_difficulty)    *)
(* and its operations register_validator, ajuster_contribution_score,      *)
(* create_transaction and validate_and_create_block.                       *)
(*                                                                         *)
(* f64 values are modelled exactly: a finite value is an integer count of  *)
(* quarters (Num(4) is 1.0), all of which f64 represents without rounding  *)
(* in the range used here; NaN and the two infinities are separate kinds.  *)
(* Sha3_256 and ed25519 signing are modelled as free      *)
(* (collision-free) constructors over their input.                         *)
(***************************************************************************)
EXTENDS Integers, Sequences, FiniteSets, TLC

\* ---------------------------------------------------------------- bounds
MaxChain == 2     \* blocks produced in a run
MaxTx == 2        \* transactions accepted in a run

\* ------------------------------------------------------ input universes
Keys == {"A", "B"}                     \* key pairs / public keys in play
Recipients == {"C"}                    \* public keys paid to
Stakes == {0, 499, 500, 1000}          \* initial_stake arguments
Amounts == {0, 50}                     \* amount arguments
Times == {1}                           \* SystemTime::now() readings (secs)

\* ------------------------------------------------------------------ f64
\* finite values count quarters: Num(q) is q / 4
Num(q) == [kind |-> "num", q |-> q]
NaN == [kind |-> "nan", q |-> 0]
PosInf == [kind |-> "inf", q |-> 1]
NegInf == [kind |-> "inf", q |-> -1]

\* the f64 literals of the source
F0_0 == Num(0)
F0_5 == Num(2)
F1_0 == Num(4)
F10_0 == Num(40)

\* rng.gen::<f64>() readings, in [0, 1): 0.0, 0.25, 0.5, 0.75
Draws == {Num(0), Num(1), Num(2), Num(3)}

\* ajustement arguments: -9.75, -9.5, -1000.0, +1000.0, the infinities, NaN
Deltas == {Num(-39), Num(-38), Num(-4000), Num(4000), PosInf, NegInf, NaN}

\* a + b on f64
FAdd(a, b) ==
    IF a.kind = "nan" \/ b.kind = "nan" THEN NaN
    ELSE IF a.kind = "inf" /\ b.kind = "inf"
         THEN (IF a.q = b.q THEN a ELSE NaN)
    ELSE IF a.kind = "inf" THEN a
    ELSE IF b.kind = "inf" THEN b
    ELSE Num(a.q + b.q)

\* a * b on f64; the finite products formed here (an integer stake times a
\* score, a draw times a sum of such weights) are whole numbers of quarters
FMul(a, b) ==
    IF a.kind = "nan" \/ b.kind = "nan" THEN NaN
    ELSE IF a.kind = "inf" \/ b.kind = "inf"
         THEN (IF a.q = 0 \/ b.q = 0 THEN NaN
               ELSE IF (a.q < 0) = (b.q < 0) THEN PosInf ELSE NegInf)
    ELSE Num((a.q * b.q) \div 4)

\* a < b on f64 (false whenever an operand is NaN)
FLt(a, b) ==
    IF a.kind = "nan" \/ b.kind = "nan" THEN FALSE
    ELSE IF a.kind = "inf" THEN a.q < 0 /\ ~(b.kind = "inf" /\ b.q < 0)
    ELSE IF b.kind = "inf" THEN b.q > 0
    ELSE a.q < b.q

\* a >= b on f64 (false whenever an operand is NaN)
FGe(a, b) ==
    IF a.kind = "nan" \/ b.kind = "nan" THEN FALSE ELSE ~FLt(a, b)

\* f64::clamp(self, min, max)
FClamp(x, lo, hi) ==
    LET y == IF FLt(x, lo) THEN lo ELSE x
    IN  IF FLt(hi, y) THEN hi ELSE y

\* ------------------------------------------------------- crypto provider
\* vec![0; 32]
ZeroHash == [i \in 1..32 |-> 0]

\* Sha3_256 over the concatenation of the updates
Sha3_256(updates) == <<"sha3", updates>>

\* Keypair::sign
Sign(keypair, message) == <<"ed25519", keypair, message>>

\* ---------------------------------------------------------------- state
VARIABLES chain, validators, pending_transactions, current_difficulty,
          result, submitted

vars == <<chain, validators, pending_transactions, current_difficulty,
          result, submitted>>

Ok == [tag |-> "Ok", msg |-> ""]
Err(m) == [tag |-> "Err", msg |-> m]
NoCall == [tag |-> "None", msg |-> ""]

Unit == [tag |-> "Unit", msg |-> ""]

\* Option<PublicKey>
Some(pubkey) == [tag |-> "Some", msg |-> pubkey]
NoSelection == [tag |-> "NoSelection", msg |-> ""]

\* Option<u64>::None
None == [some |-> FALSE, v |-> 0]

\* HashMap::new()
EmptyMap == [k \in {} |-> None]

\* Blockchain::new(); no call has returned yet, nothing was submitted yet
Init ==
    /\ chain = <<>>
    /\ validators = EmptyMap
    /\ pending_transactions = <<>>
    /\ current_difficulty = 4
    /\ result = NoCall
    /\ submitted = <<>>

\* ------------------------------------------------------------- hashing
hash_transaction_data(sender, recipient, amount, timestamp) ==
    Sha3_256(<<sender, recipient, amount, timestamp>>)

\* mutant: previous_hash is left out of the block digest
calculate_block_hash_NoPrevious(previous_hash, transactions) ==
    Sha3_256([i \in 1..Len(transactions) |->
                 hash_transaction_data(transactions[i].sender,
                                       transactions[i].recipient,
                                       transactions[i].amount,
                                       transactions[i].timestamp)])

calculate_block_hash(previous_hash, transactions) ==
    Sha3_256(<<previous_hash>> \o
             [i \in 1..Len(transactions) |->
                 hash_transaction_data(transactions[i].sender,
                                       transactions[i].recipient,
                                       transactions[i].amount,
                                       transactions[i].timestamp)])

\* ------------------------------------------------------------ registry
NewValidator(pubkey, initial_stake) ==
    [public_key |-> pubkey,
     stake |-> initial_stake,
     contribution_score |-> F1_0,
     last_validated_block |-> None]

\* mutant: the stake threshold is not tested
CheckRegistration_NoStakeTest(pubkey, initial_stake) ==
    IF pubkey \in DOMAIN validators
    THEN Err("Validator already registered")
    ELSE Ok

\* mutant: a registered identity is not refused and is inserted again
CheckRegistration_Reinsert(pubkey, initial_stake) ==
    IF initial_stake < 500
    THEN Err("Insufficient stake to become a validator")
    ELSE Ok

\* the checks that open register_validator: the error returned, or Ok
CheckRegistration(pubkey, initial_stake) ==
    IF pubkey \in DOMAIN validators
    THEN Err("Validator already registered")
    ELSE IF initial_stake < 500
    THEN Err("Insufficient stake to become a validator")
    ELSE Ok

register_validator(validator_keypair, initial_stake) ==
    LET pubkey == validator_keypair
        check == CheckRegistration(pubkey, initial_stake)
    IN
    IF check # Ok
    THEN /\ result' = check
         /\ UNCHANGED <<chain, validators, pending_transactions,
                        current_difficulty, submitted>>
    ELSE /\ validators' = [k \in DOMAIN validators \cup {pubkey} |->
                              IF k = pubkey
                              THEN NewValidator(pubkey, initial_stake)
                              ELSE validators[k]]
         /\ result' = Ok
         /\ UNCHANGED <<chain, pending_transactions, current_difficulty,
                        submitted>>

\* the score written back by ajuster_contribution_score
AdjustedScore(score, ajustement) ==
    FClamp(FAdd(score, ajustement), F0_0, F10_0)

\* mutant: an unknown identity gets an entry (entry().or_insert style)
ajuster_contribution_score_Insert(pubkey, ajustement) ==
    /\ validators' =
          [k \in DOMAIN validators \cup {pubkey} |->
              IF k = pubkey
              THEN [public_key |-> pubkey,
                    stake |-> IF k \in DOMAIN validators
                              THEN validators[k].stake ELSE 0,
                    contribution_score |->
                        AdjustedScore(IF k \in DOMAIN validators
                                      THEN validators[k].contribution_score
                                      ELSE F0_0, ajustement),
                    last_validated_block |-> None]
              ELSE validators[k]]
    /\ result' = Unit
    /\ UNCHANGED <<chain, pending_transactions, current_difficulty,
                   submitted>>

ajuster_contribution_score(pubkey, ajustement) ==
    /\ result' = Unit
    /\ UNCHANGED <<chain, pending_transactions, current_difficulty,
                   submitted>>
    /\ validators' =
          IF pubkey \in DOMAIN validators
          THEN [validators EXCEPT ![pubkey].contribution_score =
                    AdjustedScore(@, ajustement)]
          ELSE validators

\* ------------------------------------------------------------ selector
\* stake as f64 (exact below 2^53)
U64AsF64(n) == Num(4 * n)

\* (v.stake as f64) * v.contribution_score
Weight(v) == FMul(U64AsF64(v.stake), v.contribution_score)

\* the orders in which the HashMap may iterate over its entries
WalkOrders ==
    LET n == Cardinality(DOMAIN validators) IN
    {o \in [1..n -> DOMAIN validators] :
        \A i, j \in 1..n : o[i] = o[j] => i = j}

RECURSIVE CumulativeWeight(_, _)
\* cumulative_weight after the first n entries of the walk
CumulativeWeight(order, n) ==
    IF n = 0 THEN F0_0
    ELSE FAdd(CumulativeWeight(order, n - 1), Weight(validators[order[n]]))

\* total_weighted_stake: the sum over values(), the same iteration order
TotalWeightedStake(order) == CumulativeWeight(order, Len(order))

\* mutant: the walk stops only once the cumulative weight exceeds the draw
SelectedValidator_Exceeds(order, draw) ==
    LET random_point == FMul(draw, TotalWeightedStake(order))
        reached == {i \in 1..Len(order) :
                       FLt(random_point, CumulativeWeight(order, i))}
    IN IF reached = {} THEN NoSelection
       ELSE Some(order[CHOOSE i \in reached : \A j \in reached : i <= j])

\* the value select_validator returns for an iteration order and a draw
SelectedValidator(order, draw) ==
    LET random_point == FMul(draw, TotalWeightedStake(order))
        reached == {i \in 1..Len(order) :
                       FGe(CumulativeWeight(order, i), random_point)}
    IN IF reached = {} THEN NoSelection
       ELSE Some(order[CHOOSE i \in reached : \A j \in reached : i <= j])

select_validator(order, draw) ==
    /\ result' = SelectedValidator(order, draw)
    /\ UNCHANGED <<chain, validators, pending_transactions,
                   current_difficulty, submitted>>

\* ---------------------------------------------------- transaction pool
\* mutant: a zero amount is accepted
create_transaction_AcceptZero(sender, recipient, amount, now) ==
    LET timestamp == now
        transaction ==
            [sender |-> sender,
             recipient |-> recipient,
             amount |-> amount,
             signature |-> Sign(sender,
                 hash_transaction_data(sender, recipient, amount,
                                       timestamp)),
             timestamp |-> timestamp]
    IN /\ Len(submitted) < MaxTx
       /\ pending_transactions' = Append(pending_transactions, transaction)
       /\ submitted' = Append(submitted, transaction)
       /\ result' = Ok
       /\ UNCHANGED <<chain, validators, current_difficulty>>

create_transaction(sender, recipient, amount, now) ==
    IF amount = 0
    THEN /\ result' = Err("Invalid transaction amount")
         /\ UNCHANGED <<chain, validators, pending_transactions,
                        current_difficulty, submitted>>
    ELSE LET timestamp == now
             transaction ==
                 [sender |-> sender,
                  recipient |-> recipient,
                  amount |-> amount,
                  signature |-> Sign(sender,
                      hash_transaction_data(sender, recipient, amount,
                                            timestamp)),
                  timestamp |-> timestamp]
         IN /\ Len(submitted) < MaxTx
            /\ pending_transactions' =
                  Append(pending_transactions, transaction)
            /\ submitted' = Append(submitted, transaction)
            /\ result' = Ok
            /\ UNCHANGED <<chain, validators, current_difficulty>>

\* ------------------------------------------------------ chain assembler
\* mutant: a stake of exactly 1000 is rejected
NotQualified_StrictStake(validator) ==
    validator.stake <= 1000 \/ FLt(validator.contribution_score, F0_5)

\* mutant: both tests must fail for the validator to be rejected
NotQualified_BothTests(validator) ==
    validator.stake < 1000 /\ FLt(validator.contribution_score, F0_5)

\* the qualification test of validate_and_create_block (true = rejected)
NotQualified(validator) ==
    validator.stake < 1000 \/ FLt(validator.contribution_score, F0_5)

\* mutant: an unknown identity is reported as an unqualified validator
CheckValidator_OneError(validator_pubkey) ==
    IF validator_pubkey \in DOMAIN validators
          /\ ~NotQualified(validators[validator_pubkey])
    THEN Ok
    ELSE Err("Validator not qualified")

\* the checks that open validate_and_create_block: the error returned, or Ok
CheckValidator(validator_pubkey) ==
    IF validator_pubkey \in DOMAIN validators
    THEN IF NotQualified(validators[validator_pubkey])
         THEN Err("Validator not qualified")
         ELSE Ok
    ELSE Err("Validator not registered")

\* mutant: chains on the last block's previous_hash
PreviousHash_StaleLink(c) ==
    IF Len(c) > 0 THEN c[Len(c)].previous_hash ELSE ZeroHash

PreviousHash(c) ==
    IF Len(c) > 0 THEN c[Len(c)].current_hash ELSE ZeroHash

\* mutant: 1-based block index
NewBlock_OneBased(validator_keypair, now) ==
    LET previous_hash == PreviousHash(chain)
        current_hash ==
            calculate_block_hash(previous_hash, pending_transactions)
    IN [index |-> Len(chain) + 1,
        timestamp |-> now,
        transactions |-> pending_transactions,
        previous_hash |-> previous_hash,
        current_hash |-> current_hash,
        validator_signature |-> Sign(validator_keypair, current_hash),
        validator_pubkey |-> validator_keypair]

NewBlock(validator_keypair, now) ==
    LET previous_hash == PreviousHash(chain)
        current_hash ==
            calculate_block_hash(previous_hash, pending_transactions)
    IN [index |-> Len(chain),
        timestamp |-> now,
        transactions |-> pending_transactions,
        previous_hash |-> previous_hash,
        current_hash |-> current_hash,
        validator_signature |-> Sign(validator_keypair, current_hash),
        validator_pubkey |-> validator_keypair]

\* mutant: the new block is put at the head of the chain
validate_and_create_block_Prepend(validator_keypair, now) ==
    LET validator_pubkey == validator_keypair
        check == CheckValidator(validator_pubkey)
    IN
    IF check # Ok
    THEN /\ result' = check
         /\ UNCHANGED <<chain, validators, pending_transactions,
                        current_difficulty, submitted>>
    ELSE /\ Len(chain) < MaxChain
         /\ chain' = <<NewBlock(validator_keypair, now)>> \o chain
         /\ pending_transactions' = <<>>
         /\ result' = Ok
         /\ UNCHANGED <<validators, current_difficulty, submitted>>

\* mutant: the pool is not cleared after the block is appended
validate_and_create_block_KeepPool(validator_keypair, now) ==
    LET validator_pubkey == validator_keypair
        check == CheckValidator(validator_pubkey)
    IN
    IF check # Ok
    THEN /\ result' = check
         /\ UNCHANGED <<chain, validators, pending_transactions,
                        current_difficulty, submitted>>
    ELSE /\ Len(chain) < MaxChain
         /\ chain' = Append(chain, NewBlock(validator_keypair, now))
         /\ result' = Ok
         /\ UNCHANGED <<validators, pending_transactions,
                        current_difficulty, submitted>>

validate_and_create_block(validator_keypair, now) ==
    LET validator_pubkey == validator_keypair
        check == CheckValidator(validator_pubkey)
    IN
    IF check # Ok
    THEN /\ result' = check
         /\ UNCHANGED <<chain, validators, pending_transactions,
                        current_difficulty, submitted>>
    ELSE /\ Len(chain) < MaxChain
         /\ chain' = Append(chain, NewBlock(validator_keypair, now))
         /\ pending_transactions' = <<>>
         /\ result' = Ok
         /\ UNCHANGED <<validators, current_difficulty, submitted>>

\* ------------------------------------------------------- specification
Register == \E k \in Keys, s \in Stakes : register_validator(k, s)
Adjust == \E k \in Keys, d \in Deltas : ajuster_contribution_score(k, d)
Submit ==
    \E s \in Keys, r \in Recipients, a \in Amounts, t \in Times :
        create_transaction(s, r, a, t)
Produce == \E k \in Keys, t \in Times : validate_and_create_block(k, t)

Select == \E o \in WalkOrders, d \in Draws : select_validator(o, d)

Next == Register \/ Adjust \/ Submit \/ Produce \/ Select

Spec == Init /\ [][Next]_vars

TypeOK ==
    /\ Len(chain) <= MaxChain
    /\ Len(submitted) <= MaxTx
    /\ DOMAIN validators \subseteq Keys
    /\ current_difficulty = 4

\* ---------------------------------------------------------------- claims
RECURSIVE BlockTransactions(_)
\* the transaction lists of the blocks of c, concatenated in chain order
BlockTransactions(c) ==
    IF c = <<>> THEN <<>>
    ELSE BlockTransactions(SubSeq(c, 1, Len(c) - 1)) \o c[Len(c)].transactions

\* isQualified of the specification: registered, stake >= 1000, score >= 0.5
IsQualified(identity) ==
    /\ identity \in DOMAIN validators
    /\ validators[identity].stake >= 1000
    /\ FGe(validators[identity].contribution_score, F0_5)

\* C1: the first block's previous_hash is 32 zero bytes and every later
\* block's previous_hash is the current_hash of the block before it.
C1_HashChain ==
    \A i \in 1..Len(chain) :
        IF i = 1
        THEN chain[i].previous_hash = [j \in 1..32 |-> 0]
        ELSE chain[i].previous_hash = chain[i - 1].current_hash

C1_Witness ==
    /\ Len(chain) >= 2
    /\ chain[2].previous_hash = chain[1].current_hash
    /\ chain[2].previous_hash # chain[1].previous_hash

\* C2: the transactions of the blocks in chain order followed by the pending
\* pool are exactly the accepted submissions in submission order, so no
\* transaction is dropped or duplicated.
C2_NoTxLostOrDuplicated ==
    BlockTransactions(chain) \o pending_transactions = submitted

C2_Witness ==
    /\ Len(chain) >= 1
    /\ chain[1].transactions # <<>>
    /\ pending_transactions # <<>>
    /\ Len(submitted) = Len(chain[1].transactions) + Len(pending_transactions)

\* C3: a call of validate_and_create_block by a registered validator with
\* stake >= 1000 and score >= 0.5 succeeds: the chain grows by exactly one
\* block holding the pool's contents in insertion order and the caller's
\* identity, and the pool is empty afterwards.
C3_QualifiedProducerSucceeds ==
    [][\A k \in Keys, t \in Times :
          (IsQualified(k) /\ validate_and_create_block(k, t)) =>
              /\ result' = Ok
              /\ Len(chain') = Len(chain) + 1
              /\ SubSeq(chain', 1, Len(chain)) = chain
              /\ chain'[Len(chain')].transactions = pending_transactions
              /\ chain'[Len(chain')].validator_pubkey = k
              /\ pending_transactions' = <<>>]_vars

C3_Witness ==
    /\ result = Ok
    /\ Len(chain) = 2
    /\ Len(chain[1].transactions) = 2
    /\ chain[1].transactions[1] # chain[1].transactions[2]
    /\ chain[1].transactions = submitted
    /\ chain[2].transactions = <<>>
    /\ chain[1].validator_pubkey # chain[2].validator_pubkey
    /\ pending_transactions = <<>>

\* C4: block indices are 0-based and gapless: the block at position i of
\* the chain (counting from 0) has index i.
C4_IndexIsPosition ==
    \A i \in 1..Len(chain) : chain[i].index = i - 1

C4_Witness ==
    /\ Len(chain) >= 2
    /\ chain[1].index = 0
    /\ chain[2].index = 1

\* C5: validate_and_create_block called with an identity absent from the
\* registry fails with "Validator not registered" and leaves the chain, the
\* pending pool and the registry as they were.
C5_UnregisteredProducerRejected ==
    [][\A k \in Keys, t \in Times :
          (k \notin DOMAIN validators /\ validate_and_create_block(k, t)) =>
              /\ result' = Err("Validator not registered")
              /\ chain' = chain
              /\ pending_transactions' = pending_transactions
              /\ validators' = validators]_vars

C5_Witness ==
    /\ result = Err("Validator not registered")
    /\ DOMAIN validators # Keys
    /\ chain # <<>>
    /\ pending_transactions # <<>>

\* C6: validate_and_create_block called with a registered identity whose
\* stake < 1000 or whose score < 0.5 fails with "Validator not qualified"
\* and leaves the chain, the pending pool and the registry as they were,
\* also when that validator produced a block before its score was lowered.
C6_UnqualifiedProducerRejected ==
    [][\A k \in Keys, t \in Times :
          (/\ k \in DOMAIN validators
           /\ (validators[k].stake < 1000
                  \/ FLt(validators[k].contribution_score, F0_5))
           /\ validate_and_create_block(k, t)) =>
              /\ result' = Err("Validator not qualified")
              /\ chain' = chain
              /\ pending_transactions' = pending_transactions
              /\ validators' = validators]_vars

C6_Witness ==
    /\ result = Err("Validator not qualified")
    /\ DOMAIN validators = {"A"}
    /\ validators["A"].stake >= 1000
    /\ FLt(validators["A"].contribution_score, F0_5)
    /\ chain # <<>>
    /\ chain[1].validator_pubkey = "A"
    /\ pending_transactions # <<>>

\* C7 as claimed: register_validator with initial_stake < 500 fails with
\* "Insufficient stake to become a validator" for every identity and every
\* registry, a registered identity included, and never changes the registry.
C7_Original ==
    [][\A k \in Keys, st \in Stakes :
          (st < 500 /\ register_validator(k, st)) =>
              /\ result' = Err("Insufficient stake to become a validator")
              /\ validators' = validators]_vars

\* C7 amended: register_validator with initial_stake < 500 always fails and
\* never changes the registry; the error is "Insufficient stake to become a
\* validator" when the identity is not registered and "Validator already
\* registered" when it is.
C7_LowStakeRejected ==
    [][\A k \in Keys, st \in Stakes :
          (st < 500 /\ register_validator(k, st)) =>
              /\ result' = IF k \in DOMAIN validators
                            THEN Err("Validator already registered")
                            ELSE Err("Insufficient stake to become a validator")
              /\ validators' = validators]_vars

C7_Witness ==
    /\ result = Err("Insufficient stake to become a validator")
    /\ DOMAIN validators # {}
    /\ DOMAIN validators # Keys

\* C8: register_validator on an identity already in the registry fails with
\* "Validator already registered" whatever the stake passed, leaves the
\* registry unchanged, and every registry entry is the one validator of its
\* key.
C8_DuplicateRegistrationRejected ==
    [][/\ \A k \in Keys, st \in Stakes :
            (k \in DOMAIN validators /\ register_validator(k, st)) =>
                /\ result' = Err("Validator already registered")
                /\ validators' = validators
       /\ \A k \in DOMAIN validators' : validators'[k].public_key = k]_vars

C8_Witness ==
    /\ result = Err("Validator already registered")
    /\ \E k \in DOMAIN validators :
          validators[k].contribution_score # F1_0

\* C9 as claimed: every registered validator's contribution_score lies in
\* [0, 10] in every reachable state, whatever deltas were applied.
C9_ScoreInRange ==
    \A k \in DOMAIN validators :
        /\ FGe(validators[k].contribution_score, F0_0)
        /\ FGe(F10_0, validators[k].contribution_score)

\* every transaction of the pool and of every block has amount > 0
AllAmountsPositive ==
    /\ \A i \in 1..Len(pending_transactions) :
          pending_transactions[i].amount > 0
    /\ \A b \in 1..Len(chain) :
          \A i \in 1..Len(chain[b].transactions) :
              chain[b].transactions[i].amount > 0

\* C10: create_transaction with amount 0 fails with "Invalid transaction
\* amount" and changes nothing; with amount > 0 it succeeds and appends
\* exactly one transaction to the end of the pool, with no deduplication and
\* no check of the sender; every transaction held has amount > 0.
C10_SubmitChecksAmountOnly ==
    [][/\ \A sd \in Keys, r \in Recipients, a \in Amounts, t \in Times :
            create_transaction(sd, r, a, t) =>
                IF a = 0
                THEN /\ result' = Err("Invalid transaction amount")
                     /\ pending_transactions' = pending_transactions
                     /\ chain' = chain
                     /\ validators' = validators
                ELSE /\ result' = Ok
                     /\ Len(pending_transactions') =
                            Len(pending_transactions) + 1
                     /\ SubSeq(pending_transactions', 1,
                               Len(pending_transactions)) =
                            pending_transactions
                     /\ LET tx == pending_transactions'[
                                      Len(pending_transactions')]
                        IN /\ tx.sender = sd
                           /\ tx.recipient = r
                           /\ tx.amount = a
                           /\ tx.timestamp = t
                     /\ chain' = chain
                     /\ validators' = validators
       /\ AllAmountsPositive']_vars

C10_Witness ==
    /\ result = Ok
    /\ Len(pending_transactions) = 2
    /\ pending_transactions[1] = pending_transactions[2]
    /\ pending_transactions[1].sender \notin DOMAIN validators
    /\ chain # <<>>

\* the weight stake * contributionScore of a registered identity, in
\* quarters, when its score is a number
WeightQ(k) == validators[k].stake * validators[k].contribution_score.q

AllScoresNumbers ==
    \A k \in DOMAIN validators : validators[k].contribution_score.kind = "num"

RECURSIVE PrefixWeightQ(_, _)
\* the sum of the weights of the first n identities of the walk
PrefixWeightQ(order, n) ==
    IF n = 0 THEN 0 ELSE PrefixWeightQ(order, n - 1) + WeightQ(order[n])

\* C11 as claimed: a validator returned by select_validator is qualified
\* (registered, stake >= 1000, score >= 0.5) in the registry it was
\* selected from.
C11_SelectedIsQualified ==
    [][\A o \in WalkOrders, d \in Draws :
          (select_validator(o, d) /\ result'.tag = "Some") =>
              IsQualified(result'.msg)]_vars

\* C12 as claimed: select_validator returns no selection when the registry
\* is empty and when it is not empty but every validator has weight zero.
C12_NoSelectionOnZeroWeight ==
    [][\A o \in WalkOrders, d \in Draws :
          (/\ select_validator(o, d)
           /\ AllScoresNumbers
           /\ \A k \in DOMAIN validators : WeightQ(k) = 0) =>
              result' = NoSelection]_vars

\* C13: when the registry is not empty and the total weight is positive,
\* select_validator returns a registered validator for every draw, namely
\* the first of the walk whose cumulative weight reaches or exceeds
\* draw * total weight.
C13_SelectsFirstReaching ==
    (DOMAIN validators # {} /\ AllScoresNumbers) =>
        \A o \in WalkOrders, d \in Draws :
            PrefixWeightQ(o, Len(o)) > 0 =>
                \E i \in 1..Len(o) :
                    /\ SelectedValidator(o, d) = Some(o[i])
                    /\ o[i] \in DOMAIN validators
                    /\ 4 * PrefixWeightQ(o, i)
                          >= d.q * PrefixWeightQ(o, Len(o))
                    /\ \A j \in 1..(i - 1) :
                          4 * PrefixWeightQ(o, j)
                              < d.q * PrefixWeightQ(o, Len(o))

C13_Witness ==
    /\ result = Some("B")
    /\ DOMAIN validators = {"A", "B"}
    /\ AllScoresNumbers
    /\ WeightQ("A") > 0
    /\ WeightQ("B") > WeightQ("A")

\* C14 as claimed: for the same registry contents and the same draw,
\* select_validator returns the same validator whatever the iteration
\* order of the map.
C14_SelectionIndependentOfOrder ==
    \A d \in Draws : \A o1, o2 \in WalkOrders :
        SelectedValidator(o1, d) = SelectedValidator(o2, d)

\* C20 as claimed: when the total weight is positive, select_validator
\* never returns a validator whose own weight is zero, for any draw
\* (0 included) and any walk order.
C20_ZeroWeightNeverSelected ==
    [][\A o \in WalkOrders, d \in Draws :
          (/\ select_validator(o, d)
           /\ AllScoresNumbers
           /\ PrefixWeightQ(o, Len(o)) > 0
           /\ result'.tag = "Some") =>
              WeightQ(result'.msg) # 0]_vars

\* C15: the chain is append-only: at every step the chain before the step
\* is a prefix of the chain after it, so appended blocks never change and
\* the chain never shrinks.
C15_ChainAppendOnly ==
    [][/\ Len(chain') >= Len(chain)
       /\ SubSeq(chain', 1, Len(chain)) = chain]_vars

C15_Witness ==
    /\ Len(chain) = 2
    /\ chain[1] # chain[2]
    /\ result.tag \in {"Err", "Some", "Unit"}

\* C16: a registered identity stays registered with the stake given at its
\* registration, and its contribution_score changes only in a step of
\* ajuster_contribution_score naming that identity.
C16_ValidatorsPersist ==
    [][/\ \A k \in DOMAIN validators :
            /\ k \in DOMAIN validators'
            /\ validators'[k].stake = validators[k].stake
            /\ (validators'[k].contribution_score
                    # validators[k].contribution_score) =>
                  \E dl \in Deltas : ajuster_contribution_score(k, dl)
       /\ \A k \in DOMAIN validators' \ DOMAIN validators :
            \E st \in Stakes :
                /\ register_validator(k, st)
                /\ validators'[k].stake = st]_vars

C16_Witness ==
    /\ DOMAIN validators = {"A", "B"}
    /\ validators["A"].stake = 500
    /\ validators["A"].contribution_score # F1_0
    /\ validators["B"].stake = 1000
    /\ validators["B"].contribution_score = F1_0
    /\ Len(chain) = 2
    /\ result.tag = "Some"

\* C17: for every block, current_hash is the digest of previous_hash
\* followed by the digest of (sender, recipient, amount, timestamp) of each
\* of its transactions in order, that transaction digest is the one signed
\* at submission, and validator_signature is the signature of
\* validator_pubkey over current_hash.
C17_BlockDigestAndSignature ==
    \A b \in 1..Len(chain) :
        LET blk == chain[b]
            TxDigest(tx) ==
                <<"sha3", <<tx.sender, tx.recipient, tx.amount, tx.timestamp>>>>
        IN /\ blk.current_hash =
                <<"sha3", <<blk.previous_hash>> \o
                            [i \in 1..Len(blk.transactions) |->
                                TxDigest(blk.transactions[i])]>>
           /\ \A i \in 1..Len(blk.transactions) :
                blk.transactions[i].signature =
                    <<"ed25519", blk.transactions[i].sender,
                      TxDigest(blk.transactions[i])>>
           /\ blk.validator_signature =
                <<"ed25519", blk.validator_pubkey, blk.current_hash>>

C17_Witness ==
    /\ Len(chain) = 2
    /\ Len(chain[1].transactions) = 1
    /\ Len(chain[2].transactions) = 1
    /\ chain[1].transactions[1].sender # chain[2].transactions[1].sender
    /\ chain[1].validator_pubkey # chain[2].validator_pubkey

\* C18: ajuster_contribution_score on an identity not in the registry
\* changes nothing and reports no error; on a known identity it changes
\* only that validator's contribution_score.  (Every step either has this
\* frame for identity k or is not a call of the operation on k.)
C18_AdjustFrame ==
    [][\A k \in Keys :
          \/ /\ result'.tag # "Err"
             /\ chain' = chain
             /\ pending_transactions' = pending_transactions
             /\ DOMAIN validators' = DOMAIN validators
             /\ \A j \in DOMAIN validators :
                   /\ validators'[j].stake = validators[j].stake
                   /\ validators'[j].public_key = validators[j].public_key
                   /\ validators'[j].last_validated_block =
                         validators[j].last_validated_block
                   /\ j # k => validators'[j] = validators[j]
          \/ ~ \E dl \in Deltas : ajuster_contribution_score(k, dl)]_vars

C18_Witness ==
    /\ result = Unit
    /\ DOMAIN validators = {"A"}
    /\ validators["A"].contribution_score = F10_0
    /\ chain # <<>>
    /\ pending_transactions # <<>>

\* C19 as claimed: the producer of every block is registered with
\* stake >= 1000, and had contribution_score >= 0.5 when its block was
\* appended.
C19_ProducersQualified ==
    [][/\ \A b \in 1..Len(chain') :
            /\ chain'[b].validator_pubkey \in DOMAIN validators'
            /\ validators'[chain'[b].validator_pubkey].stake >= 1000
       /\ Len(chain') > Len(chain) =>
            LET producer == chain'[Len(chain')].validator_pubkey
            IN /\ producer \in DOMAIN validators
               /\ FGe(validators[producer].contribution_score, F0_5)]_vars

====
